---- MODULE Spec2Model ----
(***************************************************************************)
(* A model of RailScraper.py: the extraction pipeline of one route         *)
(* (RailScraper.scrape_route), the loop over the configured routes         *)
(* (RailScraper.scrape_all_routes) and the life of one process             *)
(* (main, RailScraper.__init__, RailScraper.run_scraping_job).             *)
(*                                                                         *)
(* A text is a sequence of one-character strings, a trip container is the  *)
(* sequence of the texts of its <span> descendants in document order, and  *)
(* a page is the sequence of the containers its selector matches.          *)
(***************************************************************************)
EXTENDS Integers, Sequences, FiniteSets, TLC

\* ------------------------------------------------------------------ bounds

MaxRoutes == 3
MaxPieces == 3
MaxMarkup == 6
MaxTrips == 4
MaxLiveRoutes == 1

\* ------------------------------------------------------- characters, texts

Digits == {"0", "1", "2", "3", "4", "5", "6", "7", "8", "9"}

Letters == {"a", "d", "e", "n", "p", "r", "x"}

\* \w of the re module: letters, digits and the underscore
IsWord(c) == c \in Digits \cup Letters \cup {"_"}

\* \b between t[p] and t[p+1]; outside the text counts as a non-word character
Boundary(t, p) ==
    LET left == p >= 1 /\ p <= Len(t) /\ IsWord(t[p])
        right == p + 1 >= 1 /\ p + 1 <= Len(t) /\ IsWord(t[p + 1])
    IN left # right

\* time_pattern anchored at position i: the length of the match there, 0 if none.
\* \b([0-2]?[0-9]):([0-5][0-9])\b, the optional hour digit tried first.
MatchAt(t, i) ==
    IF /\ i + 4 <= Len(t)
       /\ Boundary(t, i - 1)
       /\ t[i] \in {"0", "1", "2"}
       /\ t[i + 1] \in Digits
       /\ t[i + 2] = ":"
       /\ t[i + 3] \in {"0", "1", "2", "3", "4", "5"}
       /\ t[i + 4] \in Digits
       /\ Boundary(t, i + 4)
    THEN 5
    ELSE IF /\ i + 3 <= Len(t)
            /\ Boundary(t, i - 1)
            /\ t[i] \in Digits
            /\ t[i + 1] = ":"
            /\ t[i + 2] \in {"0", "1", "2", "3", "4", "5"}
            /\ t[i + 3] \in Digits
            /\ Boundary(t, i + 3)
         THEN 4
         ELSE 0

\* the start of the leftmost match at or after position from, 0 if none
RECURSIVE FirstMatchFrom(_, _)
FirstMatchFrom(t, from) ==
    IF from > Len(t) THEN 0
    ELSE IF MatchAt(t, from) > 0 THEN from
    ELSE FirstMatchFrom(t, from + 1)

NoMatch == << >>

\* time_pattern.search(text) followed by match.group(): the matched substring
\* as it stands in the text, NoMatch when search returns None
Search(t) ==
    LET i == FirstMatchFrom(t, 1)
    IN IF i = 0 THEN NoMatch ELSE SubSeq(t, i, i + MatchAt(t, i) - 1)

\* what one sub-element's text contributes to span_times: at most one token
ExtractTokens(t) == IF Search(t) = NoMatch THEN << >> ELSE << Search(t) >>

\* -------------------------------------------------------------- trip pairer

\* span_times: match.group() of every span of the container whose text matches
RECURSIVE SpanTimes(_)
SpanTimes(container) ==
    IF container = << >> THEN << >>
    ELSE ExtractTokens(Head(container)) \o SpanTimes(Tail(container))

\* (the arrival read from the last matching sub-element instead of the second)
PairContainerLast(container) ==
    LET span_times == SpanTimes(container)
    IN IF Len(span_times) >= 2
       THEN << [departure |-> span_times[1], arrival |-> span_times[Len(span_times)]] >>
       ELSE << >>

\* the pairs one container appends to timetable
PairContainer(container) ==
    LET span_times == SpanTimes(container)
    IN IF Len(span_times) >= 2
       THEN << [departure |-> span_times[1], arrival |-> span_times[2]] >>
       ELSE << >>

\* the loop over trip_containers: the pairs of every container, in order
RECURSIVE ExtractAll(_)
ExtractAll(containers) ==
    IF containers = << >> THEN << >>
    ELSE PairContainer(Head(containers)) \o ExtractAll(Tail(containers))

\* --------------------------------------------------------------- deduplicator

\* the loop over timetable with its seen set, from position i on
RECURSIVE DedupFrom(_, _, _, _)
DedupFrom(timetable, i, seen, unique) ==
    IF i > Len(timetable) THEN unique
    ELSE LET trip_key == << timetable[i].departure, timetable[i].arrival >>
         IN IF trip_key \notin seen
            THEN DedupFrom(timetable, i + 1, seen \cup {trip_key},
                           Append(unique, timetable[i]))
            ELSE DedupFrom(timetable, i + 1, seen, unique)

\* (the seen set keyed by the departure alone)
RECURSIVE DedupByDepartureFrom(_, _, _, _)
DedupByDepartureFrom(timetable, i, seen, unique) ==
    IF i > Len(timetable) THEN unique
    ELSE LET trip_key == timetable[i].departure
         IN IF trip_key \notin seen
            THEN DedupByDepartureFrom(timetable, i + 1, seen \cup {trip_key},
                                      Append(unique, timetable[i]))
            ELSE DedupByDepartureFrom(timetable, i + 1, seen, unique)

DedupByDeparture(timetable) == DedupByDepartureFrom(timetable, 1, {}, << >>)

Dedup(timetable) == DedupFrom(timetable, 1, {}, << >>)

\* the timetable scrape_route returns for a page when nothing raises
RouteTimetable(page) == Dedup(ExtractAll(page))

\* ------------------------------------------------------------ configuration

\* the routes of default_config
DefaultRoutes ==
    << [name |-> "Laagri to Tallinn", departure_station |-> "Laagri",
        arrival_station |-> "Tallinn"],
       [name |-> "Tallinn to Laagri", departure_station |-> "Tallinn",
        arrival_station |-> "Laagri"] >>

\* the routes a config.json may list: the two default ones and a third that
\* reuses the first one's name for another pair of stations
RouteSpecs ==
    { DefaultRoutes[1], DefaultRoutes[2],
      [name |-> "Laagri to Tallinn", departure_station |-> "Laagri",
       arrival_station |-> "Balti jaam"] }

RouteLists == UNION { [1..n -> RouteSpecs] : n \in 0..MaxRoutes }

\* ------------------------------------------------------------------- pages

T705 == << "7", ":", "0", "5" >>
T845 == << "8", ":", "4", "5" >>
T0910 == << "0", "9", ":", "1", "0" >>
T1030 == << "1", "0", ":", "3", "0" >>
TNone == << "n", "/", "a" >>

PageEmpty == << >>

\* a trip, a container with one time only, an over-populated container and
\* the first trip rendered again
PageTrips ==
    << << T705, T845 >>,
       << T0910 >>,
       << TNone, T0910, TNone, T1030, T845 >>,
       << T705, T845 >> >>

SitePages == { PageEmpty, PageTrips }

\* ------------------------------------------------------------------- state

VARIABLES
    config_file,      \* config.json on disk: "ok", "missing" or "malformed"
    file_routes,      \* the routes config.json lists when it is "ok"
    site,             \* site[i]: the containers in page_source when route i reads it
    phase,            \* the position of main / run_scraping_job
    raised,           \* the exception propagating out of main, "none" if none
    config,           \* self.config['routes']
    driver,           \* self.driver: "None" or "Chrome"
    engine,           \* the browser process: "none", "running" or "released"
    engines_started,  \* the number of webdriver.Chrome() calls that returned
    idx,              \* the route scrape_all_routes is at (1-based)
    pc,               \* the position of scrape_route
    wait_exc,         \* what WebDriverWait.until raised for this route
    failed_at,        \* the position at which this route's scrape raised
    trip_containers,  \* soup.select(...) of this route
    k,                \* the containers the extraction loop has consumed
    timetable,        \* timetable of scrape_route
    unique_timetable, \* unique_timetable of scrape_route
    returned,         \* the value scrape_route returned
    all_data,         \* all_data['routes']
    error_log,        \* the logger.error records of scrape_route
    failed,           \* the routes whose scrape_route took its except branch
    get_calls,        \* the route of every self.driver.get call, in call order
    html_saved,       \* the report file was written
    json_saved,       \* timetable_data.json was written
    u_pc, u_in, u_out \* a pure function applied to one input

vars == << config_file, file_routes, site, phase, raised, config, driver, engine,
           engines_started, idx, pc, wait_exc, failed_at, trip_containers, k,
           timetable, unique_timetable, returned, all_data, error_log, failed,
           get_calls, html_saved, json_saved, u_pc, u_in, u_out >>

world == << config_file, file_routes, site >>
process == << phase, raised, config, driver, engine, engines_started >>
route == << pc, wait_exc, failed_at, trip_containers, k, timetable,
            unique_timetable, returned >>
job == << idx, all_data, error_log, failed, get_calls >>
outputs == << html_saved, json_saved >>
unit == << u_pc, u_in, u_out >>

NoEntries == [n \in {} |-> 0]

\* everything but the world, before main has done anything
Fresh ==
    /\ raised = "none"
    /\ config = << >>
    /\ driver = "None"
    /\ engine = "none"
    /\ engines_started = 0
    /\ idx = 0
    /\ pc = "Idle"
    /\ wait_exc = "none"
    /\ failed_at = "none"
    /\ trip_containers = << >>
    /\ k = 0
    /\ timetable = << >>
    /\ unique_timetable = << >>
    /\ returned = << >>
    /\ all_data = NoEntries
    /\ error_log = << >>
    /\ failed = {}
    /\ get_calls = << >>
    /\ html_saved = FALSE
    /\ json_saved = FALSE

Init ==
    /\ config_file \in {"ok", "missing", "malformed"}
    /\ file_routes \in (IF config_file = "ok" THEN RouteLists ELSE {<< >>})
    /\ LET n == IF config_file = "ok" THEN Len(file_routes)
                ELSE IF config_file = "missing" THEN Len(DefaultRoutes) ELSE 0
       IN site \in [1..n -> SitePages]
    /\ phase = "load_config"
    /\ Fresh
    /\ u_pc = "off" /\ u_in = << >> /\ u_out = << >>

\* ------------------------------------------------- __init__: load_config

\* json.load of a file that is there and well formed
LoadConfig ==
    /\ phase = "load_config"
    /\ config_file = "ok"
    /\ config' = file_routes
    /\ phase' = "setup_webdriver"
    /\ UNCHANGED << world, raised, driver, engine, engines_started, route, job,
                    outputs, unit >>

\* FileNotFoundError: default_config is written to the file and returned
LoadConfigDefault ==
    /\ phase = "load_config"
    /\ config_file = "missing"
    /\ config_file' = "ok"
    /\ file_routes' = DefaultRoutes
    /\ config' = DefaultRoutes
    /\ phase' = "setup_webdriver"
    /\ UNCHANGED << site, raised, driver, engine, engines_started, route, job,
                    outputs, unit >>

\* json.load raises on a file that is not JSON; only FileNotFoundError is caught
LoadConfigMalformed ==
    /\ phase = "load_config"
    /\ config_file = "malformed"
    /\ raised' = "JSONDecodeError"
    /\ phase' = "exit"
    /\ UNCHANGED << world, config, driver, engine, engines_started, route, job,
                    outputs, unit >>

\* ---------------------------------------------- __init__: setup_webdriver

\* webdriver.Chrome(...) and set_page_load_timeout(30) both return
SetupWebdriver ==
    /\ phase = "setup_webdriver"
    /\ driver' = "Chrome"
    /\ engine' = "running"
    /\ engines_started' = engines_started + 1
    /\ phase' = "scrape_all_routes"
    /\ idx' = 1
    /\ UNCHANGED << world, raised, config, route, all_data, error_log, failed,
                    get_calls, outputs, unit >>

\* webdriver.Chrome(...) raises: logged and raised again, self.driver stays None
SetupWebdriverNoEngine ==
    /\ phase = "setup_webdriver"
    /\ raised' = "WebDriverException"
    /\ phase' = "exit"
    /\ UNCHANGED << world, config, driver, engine, engines_started, route, job,
                    outputs, unit >>

\* webdriver.Chrome(...) returns and set_page_load_timeout(30) raises: logged
\* and raised again with the browser started and nobody left to quit it
SetupWebdriverTimeoutFails ==
    /\ phase = "setup_webdriver"
    /\ driver' = "Chrome"
    /\ engine' = "running"
    /\ engines_started' = engines_started + 1
    /\ raised' = "WebDriverException"
    /\ phase' = "exit"
    /\ UNCHANGED << world, config, route, job, outputs, unit >>

\* ------------------------------------------------------------ scrape_route

\* the positions of scrape_route inside its try block
Active == { "Start", "URLBuilt", "Navigated", "Waited", "PageAcquired",
            "ContainersSelected", "PairsExtracted", "Deduplicated" }

\* scrape_all_routes calls scrape_route for the next configured route
CallScrapeRoute ==
    /\ phase = "scrape_all_routes"
    /\ pc = "Idle"
    /\ idx <= Len(config)
    /\ pc' = "Start"
    /\ UNCHANGED << world, process, job, outputs, unit, wait_exc, failed_at,
                    trip_containers, k, timetable, unique_timetable, returned >>

\* get_current_date_url and the first logger.info
BuildURL ==
    /\ phase = "scrape_all_routes"
    /\ pc = "Start"
    /\ pc' = "URLBuilt"
    /\ UNCHANGED << world, process, job, outputs, unit, wait_exc, failed_at,
                    trip_containers, k, timetable, unique_timetable, returned >>

\* self.driver.get(url) returns, then the fixed five seconds of sleep
Navigate ==
    /\ phase = "scrape_all_routes"
    /\ pc = "URLBuilt"
    /\ get_calls' = Append(get_calls, idx)
    /\ pc' = "Navigated"
    /\ UNCHANGED << world, process, idx, all_data, error_log, failed, outputs,
                    unit, wait_exc, failed_at, trip_containers, k, timetable,
                    unique_timetable, returned >>

\* (no inner try: a timeout of the wait fails the route)
AfterWaitNoInnerTry(exc) == IF exc = "none" THEN "Waited" ELSE "Failed"

\* where scrape_route stands after WebDriverWait(...).until(...) raised exc:
\* the inner try catches TimeoutException only
AfterWait(exc) ==
    IF exc \in {"none", "TimeoutException"} THEN "Waited" ELSE "Failed"

\* (the pairs collected so far returned instead of an empty list)
ExceptReturnPartial(collected) == collected

\* the empty list the except branch returns
ExceptReturn(collected) == << >>

\* (the error raised again instead of swallowed)
ExceptBranchReraise(at) ==
    /\ pc' = "Failed"
    /\ failed_at' = at
    /\ raised' = "Exception"
    /\ phase' = "close_webdriver"
    /\ UNCHANGED << world, config, driver, engine, engines_started, idx, all_data,
                    error_log, failed, outputs, unit, trip_containers, k,
                    timetable, unique_timetable, returned >>

\* the except branch of scrape_route: log the error with the route's name and
\* return an empty list
ExceptBranch(at) ==
    /\ pc' = "Failed"
    /\ failed_at' = at
    /\ error_log' = Append(error_log, [level |-> "error", route |-> config[idx].name])
    /\ failed' = failed \cup {idx}
    /\ returned' = ExceptReturn(timetable)
    /\ UNCHANGED << world, process, idx, all_data, outputs, unit,
                    trip_containers, k, timetable, unique_timetable >>

\* self.driver.get(url) raises: a page-load timeout or any WebDriverException
NavigateFails ==
    /\ phase = "scrape_all_routes"
    /\ pc = "URLBuilt"
    /\ get_calls' = Append(get_calls, idx)
    /\ ExceptBranch("URLBuilt")
    /\ UNCHANGED wait_exc

\* the bounded wait for a trip container: found, timed out, or another error
WaitForContainers ==
    /\ phase = "scrape_all_routes"
    /\ pc = "Navigated"
    /\ \E exc \in {"none", "TimeoutException", "WebDriverException"} :
          /\ wait_exc' = exc
          /\ IF AfterWait(exc) = "Failed"
             THEN ExceptBranch("Navigated") /\ UNCHANGED get_calls
             ELSE /\ pc' = AfterWait(exc)
                  /\ UNCHANGED << world, process, job, outputs, unit, failed_at,
                                  trip_containers, k, timetable, unique_timetable,
                                  returned >>

\* BeautifulSoup(self.driver.page_source, 'html.parser')
ReadPageSource ==
    /\ phase = "scrape_all_routes"
    /\ pc = "Waited"
    /\ pc' = "PageAcquired"
    /\ UNCHANGED << world, process, job, outputs, unit, wait_exc, failed_at,
                    trip_containers, k, timetable, unique_timetable, returned >>

\* soup.select(trip_container), and timetable = []
SelectContainers ==
    /\ phase = "scrape_all_routes"
    /\ pc = "PageAcquired"
    /\ trip_containers' = site[idx]
    /\ k' = 0
    /\ timetable' = << >>
    /\ pc' = "ContainersSelected"
    /\ UNCHANGED << world, process, job, outputs, unit, wait_exc, failed_at,
                    unique_timetable, returned >>

\* one pass of the loop over trip_containers
ExtractContainer ==
    /\ phase = "scrape_all_routes"
    /\ pc = "ContainersSelected"
    /\ k < Len(trip_containers)
    /\ timetable' = timetable \o PairContainer(trip_containers[k + 1])
    /\ k' = k + 1
    /\ UNCHANGED << world, process, job, outputs, unit, pc, wait_exc, failed_at,
                    trip_containers, unique_timetable, returned >>

\* the loop over trip_containers is exhausted
EndExtraction ==
    /\ phase = "scrape_all_routes"
    /\ pc = "ContainersSelected"
    /\ k = Len(trip_containers)
    /\ pc' = "PairsExtracted"
    /\ UNCHANGED << world, process, job, outputs, unit, wait_exc, failed_at,
                    trip_containers, k, timetable, unique_timetable, returned >>

\* (the deduplicated list returned at once, the Deduplicated position skipped)
DeduplicateSkips ==
    /\ phase = "scrape_all_routes"
    /\ pc = "PairsExtracted"
    /\ unique_timetable' = Dedup(timetable)
    /\ returned' = Dedup(timetable)
    /\ pc' = "Done"
    /\ UNCHANGED << world, process, job, outputs, unit, wait_exc, failed_at,
                    trip_containers, k, timetable >>

\* the loop with the seen set
Deduplicate ==
    /\ phase = "scrape_all_routes"
    /\ pc = "PairsExtracted"
    /\ unique_timetable' = Dedup(timetable)
    /\ pc' = "Deduplicated"
    /\ UNCHANGED << world, process, job, outputs, unit, wait_exc, failed_at,
                    trip_containers, k, timetable, returned >>

\* the last logger.info and return unique_timetable
ReturnTimetable ==
    /\ phase = "scrape_all_routes"
    /\ pc = "Deduplicated"
    /\ returned' = unique_timetable
    /\ pc' = "Done"
    /\ UNCHANGED << world, process, job, outputs, unit, wait_exc, failed_at,
                    trip_containers, k, timetable, unique_timetable >>

\* the step scrape_route is about to take raises an Exception: the URL
\* template, page_source, the parser, the selector, the loops
RaiseInRoute ==
    /\ phase = "scrape_all_routes"
    /\ pc \in Active \ {"URLBuilt", "Navigated"}
    /\ ExceptBranch(pc)
    /\ UNCHANGED << wait_exc, get_calls >>

\* -------------------------------------------------------- scrape_all_routes

\* (the map built anew for every route)
StoreEntryFresh(routes, r, tt) ==
    [n \in {r.name} |->
        [departure_station |-> r.departure_station,
         arrival_station |-> r.arrival_station,
         timetable |-> tt]]

\* all_data['routes'][route['name']] = {...}: a dict assignment
StoreEntry(routes, r, tt) ==
    [n \in DOMAIN routes \cup {r.name} |->
        IF n = r.name
        THEN [departure_station |-> r.departure_station,
              arrival_station |-> r.arrival_station,
              timetable |-> tt]
        ELSE routes[n]]

\* (a failed route is taken again)
NextIndexRetry(i, status) == IF status = "Failed" THEN i ELSE i + 1

\* the route the loop of scrape_all_routes takes after route i
NextIndex(i, status) == i + 1

\* scrape_route has returned: its timetable is stored under the route's name,
\* the locals of the call are gone and the loop moves on to the next route
StoreRoute ==
    /\ phase = "scrape_all_routes"
    /\ pc \in {"Done", "Failed"}
    /\ all_data' = StoreEntry(all_data, config[idx], returned)
    /\ idx' = NextIndex(idx, pc)
    /\ pc' = "Idle"
    /\ wait_exc' = "none"
    /\ failed_at' = "none"
    /\ trip_containers' = << >>
    /\ k' = 0
    /\ timetable' = << >>
    /\ unique_timetable' = << >>
    /\ returned' = << >>
    /\ UNCHANGED << world, process, error_log, failed, get_calls, outputs, unit >>

\* the loop over the routes is exhausted: return all_data
ReturnAllData ==
    /\ phase = "scrape_all_routes"
    /\ pc = "Idle"
    /\ idx > Len(config)
    /\ phase' = "generate_html"
    /\ UNCHANGED << world, raised, config, driver, engine, engines_started,
                    route, job, outputs, unit >>

\* --------------------------------------------------------- run_scraping_job

GenerateHtml ==
    /\ phase = "generate_html"
    /\ phase' = "save_html"
    /\ UNCHANGED << world, raised, config, driver, engine, engines_started,
                    route, job, outputs, unit >>

\* (no try in save_html: a failed write leaves run_scraping_job)
SaveHtmlUnguarded ==
    /\ phase = "save_html"
    /\ \/ html_saved' = TRUE /\ phase' = "save_json" /\ UNCHANGED raised
       \/ html_saved' = FALSE /\ phase' = "close_webdriver" /\ raised' = "OSError"
    /\ UNCHANGED << world, config, driver, engine, engines_started, route, job,
                    json_saved, unit >>

\* save_html writes the report, or fails to and swallows the error
SaveHtml ==
    /\ phase = "save_html"
    /\ html_saved' \in BOOLEAN
    /\ phase' = "save_json"
    /\ UNCHANGED << world, raised, config, driver, engine, engines_started,
                    route, job, json_saved, unit >>

\* json.dump(data, f) into timetable_data.json
SaveJson ==
    /\ phase = "save_json"
    /\ json_saved' = TRUE
    /\ phase' = "close_webdriver"
    /\ UNCHANGED << world, raised, config, driver, engine, engines_started,
                    route, job, html_saved, unit >>

\* opening or writing timetable_data.json raises: the finally clause runs
\* and the error leaves run_scraping_job
SaveJsonFails ==
    /\ phase = "save_json"
    /\ raised' = "OSError"
    /\ phase' = "close_webdriver"
    /\ UNCHANGED << world, config, driver, engine, engines_started, route, job,
                    outputs, unit >>

\* finally: close_webdriver, self.driver.quit() returns
CloseWebdriver ==
    /\ phase = "close_webdriver"
    /\ driver # "None"
    /\ engine' = "released"
    /\ phase' = "exit"
    /\ UNCHANGED << world, raised, config, driver, engines_started, route, job,
                    outputs, unit >>

\* finally: close_webdriver, self.driver.quit() raises and the error is
\* logged and swallowed; the browser may or may not have gone
CloseWebdriverFails ==
    /\ phase = "close_webdriver"
    /\ driver # "None"
    /\ engine' \in {"running", "released"}
    /\ phase' = "exit"
    /\ UNCHANGED << world, raised, config, driver, engines_started, route, job,
                    outputs, unit >>

Next ==
    \/ LoadConfig \/ LoadConfigDefault \/ LoadConfigMalformed
    \/ SetupWebdriver \/ SetupWebdriverNoEngine \/ SetupWebdriverTimeoutFails
    \/ CallScrapeRoute \/ BuildURL \/ Navigate \/ NavigateFails
    \/ WaitForContainers
    \/ ReadPageSource \/ SelectContainers \/ ExtractContainer \/ EndExtraction
    \/ Deduplicate \/ ReturnTimetable \/ RaiseInRoute
    \/ StoreRoute \/ ReturnAllData
    \/ GenerateHtml \/ SaveHtml \/ SaveJson \/ SaveJsonFails
    \/ CloseWebdriver \/ CloseWebdriverFails

Spec == Init /\ [][Next]_vars

\* a run over a configuration of at most MaxLiveRoutes routes, or the default
\* one, in which the process takes its next step as long as it has one: every
\* call of the engine returns or raises
InitLive == Init /\ Len(file_routes) <= MaxLiveRoutes

SpecLive == InitLive /\ [][Next]_vars /\ WF_vars(Next)

\* ------------------------------------------- the pure functions on their own

\* what a span's text is made of
Pieces == { T705, T0910, << " " >>, << "x" >>, << ":" >>, << "2" >> }

RECURSIVE Flatten(_)
Flatten(ss) == IF ss = << >> THEN << >> ELSE Head(ss) \o Flatten(Tail(ss))

Texts == { Flatten(ps) : ps \in UNION { [1..n -> Pieces] : n \in 0..MaxPieces } }

SpanTexts == { T705, T845, TNone }

\* the end of a container in a run of markup
EndTag == << "<", "/", ">" >>

\* the containers a run of spans and end tags makes: every end tag closes a
\* container, and spans after the last end tag make one more
RECURSIVE PageOf(_, _)
PageOf(markup, open) ==
    IF markup = << >> THEN (IF open = << >> THEN << >> ELSE << open >>)
    ELSE IF Head(markup) = EndTag
         THEN << open >> \o PageOf(Tail(markup), << >>)
         ELSE PageOf(Tail(markup), Append(open, Head(markup)))

\* the pages of up to MaxMarkup spans and end tags
UnitPages ==
    { PageOf(m, << >>) :
        m \in UNION { [1..n -> SpanTexts \cup {EndTag}] : n \in 0..MaxMarkup } }

TripValues ==
    { [departure |-> T705, arrival |-> T845],
      [departure |-> T705, arrival |-> T1030],
      [departure |-> T0910, arrival |-> T1030] }

TripLists == UNION { [1..n -> TripValues] : n \in 0..MaxTrips }

\* no process: one function is about to be applied to u_in
UnitInit(inputs) ==
    /\ config_file = "ok"
    /\ file_routes = << >>
    /\ site = << >>
    /\ phase = "unit"
    /\ Fresh
    /\ u_pc = "ready"
    /\ u_in \in inputs
    /\ u_out = << >>

\* the tokens one span's text yields
ApplyExtract ==
    /\ u_pc = "ready"
    /\ u_out' = ExtractTokens(u_in)
    /\ u_pc' = "done"
    /\ UNCHANGED << world, process, route, job, outputs, u_in >>

SpecExtract == UnitInit(Texts) /\ [][ApplyExtract]_vars

\* the timetable the extraction loop builds from the selected containers
ApplyPair ==
    /\ u_pc = "ready"
    /\ u_out' = ExtractAll(u_in)
    /\ u_pc' = "done"
    /\ UNCHANGED << world, process, route, job, outputs, u_in >>

SpecPair == UnitInit(UnitPages) /\ [][ApplyPair]_vars

\* the deduplication of a timetable
ApplyDedup ==
    /\ u_pc = "ready"
    /\ u_out' = Dedup(u_in)
    /\ u_pc' = "done"
    /\ UNCHANGED << world, process, route, job, outputs, u_in >>

SpecDedup == UnitInit(TripLists) /\ [][ApplyDedup]_vars

\* -------------------------------------------------------------- properties

\* HH:MM with a two-digit hour
IsPadded(t) ==
    /\ Len(t) = 5
    /\ t[1] \in Digits /\ t[2] \in Digits
    /\ t[3] = ":"
    /\ t[4] \in Digits /\ t[5] \in Digits

\* C3: every departure and every arrival of every stored timetable is in
\* zero-padded two-digit-hour HH:MM form.
C3_ZeroPadded ==
    \A n \in DOMAIN all_data :
        \A i \in 1..Len(all_data[n].timetable) :
            /\ IsPadded(all_data[n].timetable[i].departure)
            /\ IsPadded(all_data[n].timetable[i].arrival)

\* the positions of s whose element does not occur earlier in s
FirstOccurrences(s) == { i \in 1..Len(s) : \A j \in 1..(i - 1) : s[j] # s[i] }

\* the n-th smallest element of a set of numbers
RECURSIVE NthOf(_, _)
NthOf(I, n) ==
    LET m == CHOOSE x \in I : \A y \in I : x <= y
    IN IF n = 1 THEN m ELSE NthOf(I \ {m}, n - 1)

\* C4: the deduplicated timetable is exactly the first occurrences of the
\* distinct pairs of the input, in the order of first occurrence; it has no
\* two equal pairs, holds every pair of the input, and deduplicating it again
\* returns it unchanged.
C4_DedupFirstOccurrences ==
    u_pc = "done" =>
        LET I == FirstOccurrences(u_in)
        IN /\ Len(u_out) = Cardinality(I)
           /\ \A n \in 1..Len(u_out) : u_out[n] = u_in[NthOf(I, n)]
           /\ \A a, b \in 1..Len(u_out) : u_out[a] = u_out[b] => a = b
           /\ { u_out[n] : n \in 1..Len(u_out) } = { u_in[i] : i \in 1..Len(u_in) }
           /\ Dedup(u_out) = u_out

\* C4 witness: an input whose first pair comes back after another pair
C4_Witness ==
    /\ u_pc = "done"
    /\ Len(u_in) >= 3
    /\ u_in[1] # u_in[2]
    /\ u_in[3] = u_in[1]
    /\ Len(u_out) < Len(u_in)

\* the positions of the sub-elements of a container whose text holds a time
Matching(c) == { i \in 1..Len(c) : FirstMatchFrom(c[i], 1) > 0 }

\* the containers of a page that hold at least two such sub-elements
Qualifying(page) == { j \in 1..Len(page) : Cardinality(Matching(page[j])) >= 2 }

\* C5: each container contributes, in container order, exactly one pair when
\* at least two of its sub-elements match (departure from the first matching
\* one, arrival from the second, the later ones ignored), and nothing otherwise.
C5_TripPairing ==
    u_pc = "done" =>
        LET Q == Qualifying(u_in)
        IN /\ Len(u_out) = Cardinality(Q)
           /\ \A n \in 1..Len(u_out) :
                 LET c == u_in[NthOf(Q, n)]
                     M == Matching(c)
                 IN /\ u_out[n].departure = Search(c[NthOf(M, 1)])
                    /\ u_out[n].arrival = Search(c[NthOf(M, 2)])
                    /\ DOMAIN u_out[n] = {"departure", "arrival"}

\* C5 witness: a container with one match before an over-populated one whose
\* first sub-element does not match
C5_Witness ==
    /\ u_pc = "done"
    /\ Len(u_in) = 2
    /\ Cardinality(Matching(u_in[1])) = 1
    /\ Len(u_in[2]) = 4
    /\ Cardinality(Matching(u_in[2])) = 3
    /\ 1 \notin Matching(u_in[2])
    /\ Len(u_out) = 1
    /\ u_out[1].departure # u_out[1].arrival

\* every match of time_pattern in a text, left to right, none overlapping
RECURSIVE FindAllFrom(_, _)
FindAllFrom(t, from) ==
    LET i == FirstMatchFrom(t, from)
    IN IF i = 0 THEN << >>
       ELSE << SubSeq(t, i, i + MatchAt(t, i) - 1) >>
            \o FindAllFrom(t, i + MatchAt(t, i))

\* C6: extraction from a text returns one token per well-formed time in it,
\* in left-to-right order.
C6_OneTokenPerMatch == u_pc = "done" => u_out = FindAllFrom(u_in, 1)

\* scrape_all_routes has returned its snapshot to run_scraping_job
SnapshotReturned ==
    phase \in {"generate_html", "save_html", "save_json", "close_webdriver"}

\* no later configured route has the name of route i
LastOfName(i) == \A j \in (i + 1)..Len(config) : config[j].name # config[i].name

\* the timetable of route i: empty if its scrape failed, otherwise what its
\* own page gives, whatever happened to the other routes
TimetableOf(i) == IF i \in failed THEN << >> ELSE RouteTimetable(site[i])

EntryFields == {"departure_station", "arrival_station", "timetable"}

\* C1 as stated: the snapshot holds, for every configured route, an entry with
\* the three fields, empty if the route failed and otherwise the timetable of
\* the route's own page.
C1_Original ==
    SnapshotReturned =>
        \A i \in 1..Len(config) :
            /\ config[i].name \in DOMAIN all_data
            /\ DOMAIN all_data[config[i].name] = EntryFields
            /\ all_data[config[i].name].timetable = TimetableOf(i)

\* C1 amended: the snapshot holds an entry with the three fields under the
\* name of every configured route, and for every route whose name no later
\* route reuses that entry is the route's own: empty if the route failed,
\* otherwise the timetable of the route's own page, whatever the other routes did.
C1_Isolation ==
    SnapshotReturned =>
        /\ DOMAIN all_data = { config[i].name : i \in 1..Len(config) }
        /\ \A n \in DOMAIN all_data : DOMAIN all_data[n] = EntryFields
        /\ \A i \in 1..Len(config) :
              LastOfName(i) => all_data[config[i].name].timetable = TimetableOf(i)

\* C1 witness: the second of three routes failed and the third did not
C1_Witness ==
    /\ SnapshotReturned
    /\ Len(config) = 3
    /\ failed = {2}
    /\ LastOfName(2)
    /\ all_data[config[2].name].timetable = << >>
    /\ all_data[config[3].name].timetable # << >>

\* C2: an error raised at any step of scrape_route is logged with the route's
\* name and swallowed there: scrape_route returns an empty timetable and no
\* exception reaches scrape_all_routes.
C2_Swallowed ==
    /\ phase = "scrape_all_routes" => raised = "none"
    /\ Len(error_log) = Cardinality(failed)
    /\ pc = "Failed" =>
          /\ phase = "scrape_all_routes"
          /\ returned = << >>
          /\ idx \in failed
          /\ error_log # << >>
          /\ error_log[Len(error_log)] = [level |-> "error", route |-> config[idx].name]

\* C2 witness: the extraction loop raised after a first container
C2_Witness ==
    /\ pc = "Failed"
    /\ failed_at = "ContainersSelected"
    /\ k >= 1
    /\ idx = 2

\* C7: a timeout of the wait for a trip container does not fail the route:
\* the scrape goes on with the markup at hand through selection, pairing and
\* deduplication, and no container at all gives a successful empty timetable.
C7_TimeoutDegrades ==
    wait_exc = "TimeoutException" =>
        /\ pc = "Failed" => failed_at # "Navigated"
        /\ pc \in {"ContainersSelected", "PairsExtracted", "Deduplicated", "Done"} =>
              trip_containers = site[idx]
        /\ pc = "Done" =>
              /\ idx \notin failed
              /\ returned = RouteTimetable(site[idx])
              /\ site[idx] = << >> => returned = << >>

\* C7 witness: the wait timed out, nothing matched the selector and the
\* route is done
C7_Witness ==
    /\ wait_exc = "TimeoutException"
    /\ pc = "Done"
    /\ site[idx] = << >>
    /\ returned = << >>

\* C8: the engine is started at most once and, whenever it was started, it has
\* been released by the time the process ends.
C8_EngineLifecycle ==
    /\ engines_started <= 1
    /\ (phase = "exit" /\ engines_started > 0) => engine = "released"

\* C9: the only error that ends a run is the failure to start the engine, and
\* it ends the run before any route is processed.
C9_OnlyEngineInitFatal ==
    (phase = "exit" /\ raised # "none") =>
        /\ raised = "WebDriverException"
        /\ idx = 0
        /\ config_file = "ok"

NamesUpTo(n) == { config[i].name : i \in 1..n }

\* C10 as stated: every route adds an entry of its own, so a finished
\* snapshot has as many entries as there are configured routes.
C10_Original ==
    /\ phase = "scrape_all_routes" => Cardinality(DOMAIN all_data) = idx - 1
    /\ SnapshotReturned => Cardinality(DOMAIN all_data) = Len(config)

C10_Keys ==
    /\ phase = "scrape_all_routes" =>
          /\ idx \in 1..(Len(config) + 1)
          /\ DOMAIN all_data = NamesUpTo(idx - 1)
    /\ SnapshotReturned => DOMAIN all_data = NamesUpTo(Len(config))

C10_Step ==
    /\ idx' # idx => idx' = idx + 1
    /\ all_data' # all_data =>
          /\ pc \in {"Done", "Failed"}
          /\ idx' = idx + 1
          /\ DOMAIN all_data' = DOMAIN all_data \cup {config[idx].name}
          /\ \A n \in DOMAIN all_data \ {config[idx].name} : all_data'[n] = all_data[n]

\* C10 amended: the routes are processed one at a time in configured order and
\* the snapshot map is keyed by route name: storing a route adds an entry
\* under its name, or replaces the entry an earlier route of the same name
\* left there, and never removes or changes an entry of another name, so the
\* finished snapshot has one entry for every distinct configured route name.
C10_KeyedByName == [] C10_Keys /\ [][C10_Step]_vars

\* C10 witness: three routes, two of them of one name, and two entries
C10_Witness ==
    /\ SnapshotReturned
    /\ Len(config) = 3
    /\ Cardinality(DOMAIN all_data) = 2
    /\ failed = {}

\* the number of self.driver.get calls made for route i
GetCalls(i) == Cardinality({ j \in 1..Len(get_calls) : get_calls[j] = i })

\* C11 as stated: in a run every configured route's navigation is attempted
\* exactly once.
C11_Original ==
    SnapshotReturned => \A i \in 1..Len(config) : GetCalls(i) = 1

C11_Calls ==
    /\ \A i \in 1..Len(config) : GetCalls(i) <= 1
    /\ \A j \in 1..Len(get_calls) :
          /\ get_calls[j] <= idx
          /\ \A h \in 1..(j - 1) : get_calls[h] < get_calls[j]
    /\ pc \in {"Done", "Failed"} => (GetCalls(idx) = 0 <=> failed_at = "Start")
    /\ phase = "scrape_all_routes" =>
          \A i \in 1..(idx - 1) : GetCalls(i) = 0 => i \in failed
    /\ SnapshotReturned =>
          /\ \A i \in 1..Len(config) : GetCalls(i) = 0 => i \in failed
          /\ \A i \in failed : all_data[config[i].name].timetable = << >> \/ ~LastOfName(i)

C11_Step ==
    /\ get_calls' # get_calls =>
          /\ pc = "URLBuilt"
          /\ get_calls' = Append(get_calls, idx)
    /\ (pc = "Failed" /\ pc' # "Failed") => (pc' = "Idle" /\ idx' = idx + 1)

\* C11 amended: in a run every configured route's navigation is attempted at
\* most once, whether it succeeds, times out or fails, and exactly once
\* unless building the route's URL raised, in which case it is not attempted
\* at all; a failed route is recorded as empty and the run moves on to the
\* next route without attempting it again.
C11_NoRetry == [] C11_Calls /\ [][C11_Step]_vars

\* C11 witness: of three routes the first failed in driver.get, the second
\* before it, and the run went on to navigate to the third
C11_Witness ==
    /\ SnapshotReturned
    /\ Len(config) = 3
    /\ failed = {1, 2}
    /\ get_calls = << 1, 3 >>

\* the stages of the route scraper, in order
StageOrder ==
    << "Start", "URLBuilt", "PageAcquired", "ContainersSelected",
       "PairsExtracted", "Deduplicated", "Done" >>

\* the stage a position of scrape_route belongs to: the page is being
\* acquired from the built URL until page_source has been read
Stage(p) == IF p \in {"Navigated", "Waited"} THEN "URLBuilt" ELSE p

StageIndex(st) == CHOOSE n \in 1..Len(StageOrder) : StageOrder[n] = st

\* some step of scrape_route raises now
FailStep == (RaiseInRoute \/ NavigateFails \/ WaitForContainers) /\ pc' = "Failed"

C12_Stages ==
    /\ pc = "Failed" => returned = << >>
    /\ pc \in Active => ENABLED FailStep

C12_Step ==
    LET a == Stage(pc)
        b == Stage(pc')
    IN /\ pc \in Active =>
             \/ b = a
             \/ b = StageOrder[StageIndex(a) + 1]
             \/ b = "Failed"
       /\ pc \in {"Done", "Failed"} => pc' \in {pc, "Idle"}
       /\ pc = "Idle" => pc' \in {"Idle", "Start"}

\* C12: a call of scrape_route moves through Start, URLBuilt, PageAcquired,
\* ContainersSelected, PairsExtracted and Deduplicated in that order, no stage
\* skipped or taken again, can leave to Failed from every one of them, and
\* ends in Done or in Failed, never both, Failed with an empty timetable.
C12_StateMachine ==
    /\ [] C12_Stages
    /\ [][C12_Step]_vars
    /\ (pc = "Start") ~> (pc \in {"Done", "Failed"})

\* C12 witness: a call that went through every stage and returned two trips
C12_Witness ==
    /\ pc = "Done"
    /\ wait_exc = "none"
    /\ k = 4
    /\ Len(timetable) = 3
    /\ Len(returned) = 2

C13_Returned ==
    (pc = "Failed" /\ timetable # << >>) => returned = << >>

C13_Stored ==
    (pc = "Failed" /\ pc' = "Idle") =>
        /\ config[idx].name \in DOMAIN all_data'
        /\ all_data'[config[idx].name].timetable = << >>

\* C13: a scrape that raises after pairs were extracted from earlier
\* containers returns an empty timetable: the pairs collected before the
\* failure are neither returned nor stored in the snapshot.
C13_AllOrNothing == [] C13_Returned /\ [][C13_Stored]_vars

\* C13 witness: the extraction loop raised at the last container with two
\* pairs already collected
C13_Witness ==
    /\ pc = "Failed"
    /\ failed_at = "ContainersSelected"
    /\ k = 3
    /\ Len(timetable) = 2
    /\ returned = << >>

\* every configured route has been scraped and stored
AllScraped == idx = Len(config) + 1 /\ pc = "Idle"

C14_Order ==
    /\ (html_saved \/ json_saved) =>
          /\ AllScraped
          /\ phase \in {"save_json", "close_webdriver", "exit"}
    /\ json_saved => phase \in {"close_webdriver", "exit"}
    /\ engine = "released" => phase = "exit"
    /\ phase \in {"save_html", "save_json", "close_webdriver"} => engine = "running"
    /\ phase = "save_json" => (raised = "none" /\ ENABLED SaveJson)
    /\ phase = "close_webdriver" => ENABLED CloseWebdriver

C14_Step ==
    /\ html_saved' # html_saved => (phase = "save_html" /\ ~json_saved)
    /\ json_saved' # json_saved => phase = "save_json"
    /\ engine' # engine => phase \in {"setup_webdriver", "close_webdriver"}
    /\ phase = "generate_html" => phase' \in {phase, "save_html"}
    /\ phase = "save_html" => (phase' \in {phase, "save_json"} /\ raised' = "none")
    /\ phase = "save_json" => phase' \in {phase, "close_webdriver"}
    /\ phase = "close_webdriver" => phase' \in {phase, "exit"}
    /\ phase = "exit" => UNCHANGED << phase, engine, html_saved, json_saved >>

\* C14: in a scraping job every route is scraped before any output is
\* produced, the report is saved before the JSON snapshot is written and the
\* engine is released only after both; a failure to write the report is
\* swallowed and keeps neither the JSON snapshot from being written nor the
\* engine from being released.
C14_JobOrder == [] C14_Order /\ [][C14_Step]_vars

\* C14 witness: the report could not be written, the snapshot was, and the
\* engine has been released
C14_Witness ==
    /\ phase = "exit"
    /\ Len(config) >= 1
    /\ ~html_saved
    /\ json_saved
    /\ engine = "released"
    /\ raised = "none"

====
